---------------------------- MODULE Spec2Model ----------------------------
(***************************************************************************)
(* Model of the Fitbit API client: the request executor api_request with   *)
(* its refresh-and-retry step (core/api.py), the credential store          *)
(* functions load_tokens and refresh_token (core/util.py), the parameter   *)
(* validators and the four heart-rate accessors of _HeartRate.             *)
(*                                                                         *)
(* Strings whose characters matter (dates, times, urls) are sequences of   *)
(* one-character strings; a literal chunk of a url is one element.         *)
(***************************************************************************)
EXTENDS Integers, Sequences, FiniteSets, TLC

(* ------------------------------ bounds -------------------------------- *)

\* accessor calls made on the FitbitAPI object in one behaviour
MaxCalls == 2
\* token pairs the token endpoint issues in one behaviour
MaxTokens == 2

\* the largest bytes_of_randomness make_code_verifier is called with
MaxEntropyBytes == 97

Procs == {1, 2}

(* --------------------------- strings ---------------------------------- *)

Digits == {"0", "1", "2", "3", "4", "5", "6", "7", "8", "9"}

\* Python's None, distinct from every string (strings hold one-character elements)
None == <<"None">>

Today == <<"t", "o", "d", "a", "y">>
Date_2022_08_15 == <<"2", "0", "2", "2", "-", "0", "8", "-", "1", "5">>
Date_9999_99_99 == <<"9", "9", "9", "9", "-", "9", "9", "-", "9", "9">>
Date_2022_8_15 == <<"2", "0", "2", "2", "-", "8", "-", "1", "5">>
Date_15_08_2022 == <<"1", "5", "-", "0", "8", "-", "2", "0", "2", "2">>
Time_07_00 == <<"0", "7", ":", "0", "0">>
Time_13_00 == <<"1", "3", ":", "0", "0">>
Time_7_00 == <<"7", ":", "0", "0">>
Time_25_99 == <<"2", "5", ":", "9", "9">>

\* characters used to build the validators' inputs
Alphabet == {"9", "-", ":", "a", "\n", " "}

Replace(s, i, c) == [s EXCEPT ![i] = c]
Delete(s, i) == SubSeq(s, 1, i - 1) \o SubSeq(s, i + 1, Len(s))
Insert(s, i, c) == SubSeq(s, 1, i - 1) \o <<c>> \o SubSeq(s, i, Len(s))

\* every string one edit (replace, delete, insert) away from s
Edits(s) ==
    {Replace(s, i, c) : i \in 1..Len(s), c \in Alphabet}
    \cup {Delete(s, i) : i \in 1..Len(s)}
    \cup {Insert(s, i, c) : i \in 1..(Len(s) + 1), c \in Alphabet}

DateInputs ==
    {Today, Date_2022_08_15, Date_9999_99_99, Date_2022_8_15, Date_15_08_2022, <<>>}
    \cup Edits(Date_2022_08_15) \cup Edits(Today)

(* --------------------------- validators ------------------------------- *)

\* re.compile(r"^...$").match(s): "$" matches at the end of the string and also
\* just before a newline that ends the string, so the part between "^" and "$"
\* has to match s, or s without its final newline
BeforeDollar(s) ==
    {s} \cup (IF Len(s) >= 1 /\ s[Len(s)] = "\n" THEN {SubSeq(s, 1, Len(s) - 1)} ELSE {})

\* the body of r"^\d\d\d\d-\d\d-\d\d$"
DatePatternBody(s) ==
    /\ Len(s) = 10
    /\ \A i \in {1, 2, 3, 4, 6, 7, 9, 10} : s[i] \in Digits
    /\ s[5] = "-"
    /\ s[8] = "-"

\* the body of r"^\d\d:\d\d$"
TimePatternBody(s) ==
    /\ Len(s) = 5
    /\ \A i \in {1, 2, 4, 5} : s[i] \in Digits
    /\ s[3] = ":"

\* what a validator does: it returns a value or raises ValueError
Returns(v) == [raised |-> FALSE, value |-> v]
ValueError == [raised |-> TRUE, value |-> <<>>]

check_date_format_wrapper(date) ==
    IF \E m \in BeforeDollar(date) : DatePatternBody(m) THEN Returns(date)
    ELSE IF date = Today THEN Returns(date)
    ELSE ValueError

check_time_format_wrapper(time) ==
    IF \E m \in BeforeDollar(time) : TimePatternBody(m) THEN Returns(time)
    ELSE ValueError

check_detail_level_wrapper(detail_level, valid_detail_levels) ==
    IF detail_level \notin valid_detail_levels THEN ValueError
    ELSE Returns(detail_level)

(* --------------------------- constants -------------------------------- *)

API_ROOT == <<"https://api.fitbit.com">>

SECRETS_CLIENT_ID_KEY == "client_id"
SECRETS_CLIENT_SECRETS_KEY == "client_secret"
SECRETS_ACCESS_TOKEN_KEY == "access_token"
SECRETS_REFRESH_TOKEN_KEY == "refresh_token"
SECRETS_USER_ID_KEY == "user_id"
TOKEN_API_ACCESS_TOKEN_KEY == "access_token"
TOKEN_API_REFRESH_TOKEN_KEY == "refresh_token"
TOKEN_API_USER_ID_KEY == "user_id"

(* ------------------------- tokens and users --------------------------- *)

\* the k-th token pair of the token endpoint; pair 0 is the one authorize.py stored
AccessTok(k) == <<"at", k>>
RefreshTok(k) == <<"rt", k>>

\* the resource owner, as the token endpoint names them
ServerUserId == "B4XYZ"
\* what the secrets file may hold as user id: the owner's id, or "-" (the
\* api's name for the current user)
UserIds == {ServerUserId, "-"}

(* --------------------------- http responses --------------------------- *)

Doc(errs, d) == [errors |-> errs, data |-> d]
EmptyDoc == Doc(<<>>, "")
\* response bodies: a JSON payload, a JSON error body, a body that is not JSON
Payload(d) == [json |-> TRUE, doc |-> Doc(<<>>, d)]
ErrBody(e) == [json |-> TRUE, doc |-> Doc(<<[errorType |-> e]>>, "")]
NotJson == [json |-> FALSE, doc |-> EmptyDoc]

Resp(st, c) == [status_code |-> st, content |-> c]

\* what the resource endpoint may answer to a GET
Responses ==
    {Resp(200, Payload("p1")), Resp(200, Payload("p2")), Resp(200, NotJson),
     Resp(304, Payload("p1")),
     Resp(401, ErrBody("expired_token")), Resp(401, ErrBody("invalid_token")),
     Resp(401, NotJson),
     Resp(500, ErrBody("server_error"))}

\* the answers used where two calls interleave
FewResponses ==
    {Resp(200, Payload("p1")),
     Resp(401, ErrBody("expired_token")), Resp(401, ErrBody("invalid_token"))}

Is2xx(st) == st >= 200 /\ st < 300

(* ------------------------------ state --------------------------------- *)

VARIABLES
    vin,         \* input of a pure function run on its own
    vout,        \* its outcome
    store,       \* the secrets file (the credential store)
    selfTokens,  \* _HeartRate._tokens
    pc,          \* per caller: where its accessor call stands
    args,        \* per caller: the accessor and the parameters of its call
    url,         \* api_request: url
    tokens,      \* api_request: tokens
    headers,     \* api_request: HEADERS
    wire,        \* per caller: the GETs of its call, each with its response
    secrets,     \* refresh_token: secrets
    data,        \* refresh_token: data
    refreshes,   \* per caller: token endpoint requests of its call
    result,      \* per caller: what the call returned or raised
    nextTok,     \* token pairs the token endpoint has issued
    calls,       \* accessor calls made
    replaced,    \* access tokens a refresh has replaced in the store
    staleGet     \* a GET carried an access token of replaced

vars == <<vin, vout, store, selfTokens, pc, args, url, tokens, headers, wire,
          secrets, data, refreshes, result, nextTok, calls, replaced, staleGet>>

protoVars == <<store, selfTokens, pc, args, url, tokens, headers, wire,
               secrets, data, refreshes, result, nextTok, calls, replaced, staleGet>>

Pending == Returns(<<"pending">>)

NoTokens == [user_id |-> "", access_token |-> <<>>, refresh_token |-> <<>>]
NoSecrets == [client_id |-> "", client_secret |-> "", user_id |-> "",
              access_token |-> <<>>, refresh_token |-> <<>>]
NoArgs == [fn |-> "", date |-> None, end_date |-> None, period |-> "",
           detail_level |-> "", start_time |-> None, end_time |-> None]
NoResult == [kind |-> "none", status_code |-> 0, content |-> NotJson, value |-> EmptyDoc]
NoHeaders == [Authorization |-> <<>>, accept |-> ""]

\* load_tokens: the three token fields of the secrets file
load_tokens(file) ==
    [key \in {SECRETS_USER_ID_KEY, SECRETS_ACCESS_TOKEN_KEY, SECRETS_REFRESH_TOKEN_KEY}
        |-> file[key]]

\* the state once authorize.py has stored pair 0 and the caller has built
\* FitbitAPI(load_tokens(config_file))
InitProto ==
    /\ store \in [client_id : {"ABC123"}, client_secret : {"s3cr3t"},
                  user_id : UserIds,
                  access_token : {AccessTok(0)}, refresh_token : {RefreshTok(0)}]
    /\ selfTokens = load_tokens(store)
    /\ pc = [p \in Procs |-> "idle"]
    /\ args = [p \in Procs |-> NoArgs]
    /\ url = [p \in Procs |-> <<>>]
    /\ tokens = [p \in Procs |-> NoTokens]
    /\ headers = [p \in Procs |-> NoHeaders]
    /\ wire = [p \in Procs |-> <<>>]
    /\ secrets = [p \in Procs |-> NoSecrets]
    /\ data = [p \in Procs |-> NoTokens]
    /\ refreshes = [p \in Procs |-> 0]
    /\ result = [p \in Procs |-> NoResult]
    /\ nextTok = 0
    /\ calls = 0
    /\ replaced = {}
    /\ staleGet = FALSE

(* ------------------------- request executor --------------------------- *)

CanCall(p) == pc[p] \in {"idle", "done"} /\ calls < MaxCalls

\* an accessor raises ValueError before api_request is entered
RaiseValueError(p, a) ==
    /\ args' = [args EXCEPT ![p] = a]
    /\ url' = [url EXCEPT ![p] = <<>>]
    /\ tokens' = [tokens EXCEPT ![p] = NoTokens]
    /\ headers' = [headers EXCEPT ![p] = NoHeaders]
    /\ wire' = [wire EXCEPT ![p] = <<>>]
    /\ secrets' = [secrets EXCEPT ![p] = NoSecrets]
    /\ data' = [data EXCEPT ![p] = NoTokens]
    /\ refreshes' = [refreshes EXCEPT ![p] = 0]
    /\ result' = [result EXCEPT ![p] = [NoResult EXCEPT !.kind = "ValueError"]]
    /\ pc' = [pc EXCEPT ![p] = "done"]
    /\ calls' = calls + 1
    /\ UNCHANGED <<vin, vout, store, selfTokens, nextTok, replaced, staleGet>>

\* api_request(url, self._tokens) up to the first GET: the parameters are bound
\* and HEADERS is built from the tokens handed in
api_request(p, a, u) ==
    /\ args' = [args EXCEPT ![p] = a]
    /\ url' = [url EXCEPT ![p] = u]
    /\ tokens' = [tokens EXCEPT ![p] = selfTokens]
    /\ headers' = [headers EXCEPT ![p] =
            [Authorization |-> <<"Bearer ", selfTokens[TOKEN_API_ACCESS_TOKEN_KEY]>>,
             accept |-> "application/json"]]
    /\ wire' = [wire EXCEPT ![p] = <<>>]
    /\ secrets' = [secrets EXCEPT ![p] = NoSecrets]
    /\ data' = [data EXCEPT ![p] = NoTokens]
    /\ refreshes' = [refreshes EXCEPT ![p] = 0]
    /\ result' = [result EXCEPT ![p] = NoResult]
    /\ pc' = [pc EXCEPT ![p] = "get"]
    /\ calls' = calls + 1
    /\ UNCHANGED <<vin, vout, store, selfTokens, nextTok, replaced, staleGet>>

\* raise_for_status that forgets the server errors
raise_for_status_4xx_only(r) == r.status_code >= 400 /\ r.status_code < 500

\* response.raise_for_status(): raises for a 4xx or 5xx status, and for no other
raise_for_status(r) == r.status_code >= 400 /\ r.status_code < 600

\* the end of api_request: raise_for_status, then json.loads of the body
Outcome(r) ==
    IF raise_for_status(r)
    THEN [kind |-> "HTTPError", status_code |-> r.status_code,
          content |-> r.content, value |-> EmptyDoc]
    ELSE IF ~r.content.json
    THEN [NoResult EXCEPT !.kind = "JSONDecodeError"]
    ELSE [NoResult EXCEPT !.kind = "return", !.value = r.content.doc]

\* requests.get(url=url, headers=HEADERS), as seen on the wire
Sent(p, r) == [url |-> url[p], auth |-> headers[p].Authorization, resp |-> r]

IsStale(p) == \E t \in replaced : headers[p].Authorization = <<"Bearer ", t>>

\* a first GET that refreshes on every 401, whatever its errorType
FirstGet_any_401(p, R) ==
    /\ pc[p] = "get"
    /\ \E r \in R :
        /\ wire' = [wire EXCEPT ![p] = Append(@, Sent(p, r))]
        /\ staleGet' = (staleGet \/ IsStale(p))
        /\ IF r.status_code = 401
           THEN /\ pc' = [pc EXCEPT ![p] = "refresh_load"]
                /\ UNCHANGED result
           ELSE /\ result' = [result EXCEPT ![p] = Outcome(r)]
                /\ pc' = [pc EXCEPT ![p] = "done"]
    /\ UNCHANGED <<vin, vout, store, selfTokens, args, url, tokens, headers,
                   secrets, data, refreshes, nextTok, calls, replaced>>

\* the first GET and what lines 33-35 and 43-53 make of its response
FirstGet(p, R) ==
    /\ pc[p] = "get"
    /\ \E r \in R :
        /\ wire' = [wire EXCEPT ![p] = Append(@, Sent(p, r))]
        /\ staleGet' = (staleGet \/ IsStale(p))
        /\ IF r.status_code = 401 /\ ~r.content.json
           THEN /\ result' = [result EXCEPT ![p] = [NoResult EXCEPT !.kind = "JSONDecodeError"]]
                /\ pc' = [pc EXCEPT ![p] = "done"]
           ELSE IF r.status_code = 401
                   /\ r.content.doc.errors[1].errorType = "expired_token"
           THEN /\ pc' = [pc EXCEPT ![p] = "refresh_load"]
                /\ UNCHANGED result
           ELSE /\ result' = [result EXCEPT ![p] = Outcome(r)]
                /\ pc' = [pc EXCEPT ![p] = "done"]
    /\ UNCHANGED <<vin, vout, store, selfTokens, args, url, tokens, headers,
                   secrets, data, refreshes, nextTok, calls, replaced>>

(* ---------------------------- refresh_token --------------------------- *)

\* a refresh that is skipped when the store no longer holds the access token
\* the call was made with (another call has refreshed already)
RefreshLoad_single_flight(p) ==
    /\ pc[p] = "refresh_load"
    /\ IF store[SECRETS_ACCESS_TOKEN_KEY] /= tokens[p][TOKEN_API_ACCESS_TOKEN_KEY]
       THEN /\ pc' = [pc EXCEPT ![p] = "reload"]
            /\ UNCHANGED secrets
       ELSE /\ secrets' = [secrets EXCEPT ![p] = store]
            /\ pc' = [pc EXCEPT ![p] = "refresh_request"]
    /\ UNCHANGED <<vin, vout, store, selfTokens, args, url, tokens, headers, wire,
                   data, refreshes, result, nextTok, calls, replaced, staleGet>>

\* the two toml.load calls
RefreshLoad(p) ==
    /\ pc[p] = "refresh_load"
    /\ secrets' = [secrets EXCEPT ![p] = store]
    /\ pc' = [pc EXCEPT ![p] = "refresh_request"]
    /\ UNCHANGED <<vin, vout, store, selfTokens, args, url, tokens, headers, wire,
                   data, refreshes, result, nextTok, calls, replaced, staleGet>>

\* the token endpoint's answers to a refresh request: a new pair (while the
\* model's supply lasts) or a status that is not 2xx
request_new_token_pair(client_id, client_secret, refresh_token) ==
    {[ok |-> FALSE, data |-> NoTokens]}
    \cup IF nextTok < MaxTokens
         THEN {[ok |-> TRUE,
                data |-> [user_id |-> ServerUserId,
                          access_token |-> AccessTok(nextTok + 1),
                          refresh_token |-> RefreshTok(nextTok + 1)]]}
         ELSE {}

\* a refresh request whose failure is caught, the call going on to its retry
RefreshRequest_swallow(p) ==
    /\ pc[p] = "refresh_request"
    /\ refreshes' = [refreshes EXCEPT ![p] = @ + 1]
    /\ \E out \in request_new_token_pair(secrets[p][SECRETS_CLIENT_ID_KEY],
                                         secrets[p][SECRETS_CLIENT_SECRETS_KEY],
                                         secrets[p][SECRETS_REFRESH_TOKEN_KEY]) :
        IF out.ok
        THEN /\ data' = [data EXCEPT ![p] = out.data]
             /\ nextTok' = nextTok + 1
             /\ pc' = [pc EXCEPT ![p] = "refresh_save"]
        ELSE /\ pc' = [pc EXCEPT ![p] = "reload"]
             /\ UNCHANGED <<data, nextTok>>
    /\ UNCHANGED <<vin, vout, store, selfTokens, args, url, tokens, headers, wire,
                   secrets, result, calls, replaced, staleGet>>

RefreshRequest(p) ==
    /\ pc[p] = "refresh_request"
    /\ refreshes' = [refreshes EXCEPT ![p] = @ + 1]
    /\ \E out \in request_new_token_pair(secrets[p][SECRETS_CLIENT_ID_KEY],
                                         secrets[p][SECRETS_CLIENT_SECRETS_KEY],
                                         secrets[p][SECRETS_REFRESH_TOKEN_KEY]) :
        IF out.ok
        THEN /\ data' = [data EXCEPT ![p] = out.data]
             /\ nextTok' = nextTok + 1
             /\ pc' = [pc EXCEPT ![p] = "refresh_save"]
             /\ UNCHANGED result
        ELSE /\ result' = [result EXCEPT ![p] = [NoResult EXCEPT !.kind = "TokenExchangeError"]]
             /\ pc' = [pc EXCEPT ![p] = "done"]
             /\ UNCHANGED <<data, nextTok>>
    /\ UNCHANGED <<vin, vout, store, selfTokens, args, url, tokens, headers, wire,
                   secrets, calls, replaced, staleGet>>

\* the swap of lines 39-40
Swapped(p) ==
    [secrets[p] EXCEPT ![SECRETS_ACCESS_TOKEN_KEY] = data[p][TOKEN_API_ACCESS_TOKEN_KEY],
                       ![SECRETS_REFRESH_TOKEN_KEY] = data[p][TOKEN_API_REFRESH_TOKEN_KEY]]

\* toml.dump(secrets, <path>): dump is handed the path of the secrets file, not
\* an open file as in scripts/authorize.py. The toml package's dump writes to
\* its second argument and raises when that is a str; the comment of line 42
\* says the file is overwritten. Both outcomes are kept.
toml_dump_outcomes == {"raised", "written"}

RefreshSave(p) ==
    /\ pc[p] = "refresh_save"
    /\ secrets' = [secrets EXCEPT ![p] = Swapped(p)]
    /\ \E o \in toml_dump_outcomes :
        IF o = "written"
        THEN /\ store' = Swapped(p)
             /\ replaced' = replaced \cup
                    ({store[SECRETS_ACCESS_TOKEN_KEY]} \ {Swapped(p)[SECRETS_ACCESS_TOKEN_KEY]})
             /\ pc' = [pc EXCEPT ![p] = "reload"]
             /\ UNCHANGED result
        ELSE /\ result' = [result EXCEPT ![p] = [NoResult EXCEPT !.kind = "AttributeError"]]
             /\ pc' = [pc EXCEPT ![p] = "done"]
             /\ UNCHANGED <<store, replaced>>
    /\ UNCHANGED <<vin, vout, selfTokens, args, url, tokens, headers, wire,
                   data, refreshes, nextTok, calls, staleGet>>

(* ----------------------- api_request, after refresh ------------------- *)

\* tokens = load_tokens(config_file) and the new Authorization header
Reload(p) ==
    /\ pc[p] = "reload"
    /\ tokens' = [tokens EXCEPT ![p] = load_tokens(store)]
    /\ headers' = [headers EXCEPT ![p] =
            [@ EXCEPT !.Authorization =
                <<"Bearer ", load_tokens(store)[TOKEN_API_ACCESS_TOKEN_KEY]>>]]
    /\ pc' = [pc EXCEPT ![p] = "retry"]
    /\ UNCHANGED <<vin, vout, store, selfTokens, args, url, wire, secrets, data,
                   refreshes, result, nextTok, calls, replaced, staleGet>>

\* a second GET that refreshes again on another 401 expired_token
RetryGet_again(p, R) ==
    /\ pc[p] = "retry"
    /\ \E r \in R :
        /\ wire' = [wire EXCEPT ![p] = Append(@, Sent(p, r))]
        /\ staleGet' = (staleGet \/ IsStale(p))
        /\ IF r.status_code = 401 /\ r.content.json
              /\ r.content.doc.errors[1].errorType = "expired_token"
           THEN /\ pc' = [pc EXCEPT ![p] = "refresh_load"]
                /\ UNCHANGED result
           ELSE /\ result' = [result EXCEPT ![p] = Outcome(r)]
                /\ pc' = [pc EXCEPT ![p] = "done"]
    /\ UNCHANGED <<vin, vout, store, selfTokens, args, url, tokens, headers,
                   secrets, data, refreshes, nextTok, calls, replaced>>

\* the second GET; its response goes to raise_for_status whatever it is
RetryGet(p, R) ==
    /\ pc[p] = "retry"
    /\ \E r \in R :
        /\ wire' = [wire EXCEPT ![p] = Append(@, Sent(p, r))]
        /\ staleGet' = (staleGet \/ IsStale(p))
        /\ result' = [result EXCEPT ![p] = Outcome(r)]
        /\ pc' = [pc EXCEPT ![p] = "done"]
    /\ UNCHANGED <<vin, vout, store, selfTokens, args, url, tokens, headers,
                   secrets, data, refreshes, nextTok, calls, replaced>>

(* ------------------------------ accessors ----------------------------- *)

VALID_PERIODS == {"1d", "7d", "30d", "1w", "1m"}
DETAIL_LEVELS_by_date == {"1sec", "1min", "5min", "15min"}
DETAIL_LEVELS_by_interval == {"1sec", "1min"}

UserPath == API_ROOT \o <<"/1/user/", selfTokens[SECRETS_USER_ID_KEY]>>

\* the "/time/{start_time}/{end_time}" part and ".json"
TimeSuffix(start_time, end_time) ==
    (IF start_time /= None /\ end_time /= None
     THEN <<"/time/">> \o start_time \o <<"/">> \o end_time
     ELSE <<>>)
    \o <<".json">>

\* by_date without the date check
by_date_unchecked_date(p, date, period) ==
    /\ CanCall(p)
    /\ LET a == [NoArgs EXCEPT !.fn = "by_date", !.date = date, !.period = period]
       IN  IF period \notin VALID_PERIODS THEN RaiseValueError(p, a)
           ELSE api_request(p, a,
                    UserPath \o <<"/activities/heart/date/">> \o date
                    \o <<"/", period, ".json">>)

by_date(p, date, period) ==
    /\ CanCall(p)
    /\ LET a == [NoArgs EXCEPT !.fn = "by_date", !.date = date, !.period = period]
       IN  IF period \notin VALID_PERIODS THEN RaiseValueError(p, a)
           ELSE IF check_date_format_wrapper(date).raised THEN RaiseValueError(p, a)
           ELSE api_request(p, a,
                    UserPath \o <<"/activities/heart/date/">> \o date
                    \o <<"/", period, ".json">>)

by_date_range(p, start_date, end_date) ==
    /\ CanCall(p)
    /\ LET a == [NoArgs EXCEPT !.fn = "by_date_range", !.date = start_date,
                               !.end_date = end_date]
       IN  IF check_date_format_wrapper(start_date).raised THEN RaiseValueError(p, a)
           ELSE IF check_date_format_wrapper(end_date).raised THEN RaiseValueError(p, a)
           ELSE api_request(p, a,
                    UserPath \o <<"/activities/heart/date/">> \o start_date
                    \o <<"/">> \o end_date \o <<".json">>)

\* the time checks without the both-or-neither check
TimesRaise_no_xor(start_time, end_time) ==
    \/ start_time /= None /\ check_time_format_wrapper(start_time).raised
    \/ end_time /= None /\ check_time_format_wrapper(end_time).raised

\* the checks of the two time parameters, shared by the intraday accessors
TimesRaise(start_time, end_time) ==
    \/ (start_time /= None) /= (end_time /= None)
    \/ start_time /= None /\ check_time_format_wrapper(start_time).raised
    \/ end_time /= None /\ check_time_format_wrapper(end_time).raised

by_date_intraday(p, date, detail_level, start_time, end_time) ==
    /\ CanCall(p)
    /\ LET a == [NoArgs EXCEPT !.fn = "by_date_intraday", !.date = date,
                               !.detail_level = detail_level,
                               !.start_time = start_time, !.end_time = end_time]
       IN  IF check_date_format_wrapper(date).raised THEN RaiseValueError(p, a)
           ELSE IF check_detail_level_wrapper(detail_level, DETAIL_LEVELS_by_date).raised
           THEN RaiseValueError(p, a)
           ELSE IF TimesRaise(start_time, end_time) THEN RaiseValueError(p, a)
           ELSE api_request(p, a,
                    UserPath \o <<"/activities/heart/date/">> \o date
                    \o <<"/1d/", detail_level>> \o TimeSuffix(start_time, end_time))

by_interval_intraday(p, start_date, end_date, detail_level, start_time, end_time) ==
    /\ CanCall(p)
    /\ LET a == [NoArgs EXCEPT !.fn = "by_interval_intraday", !.date = start_date,
                               !.end_date = end_date, !.detail_level = detail_level,
                               !.start_time = start_time, !.end_time = end_time]
       IN  IF check_detail_level_wrapper(detail_level, DETAIL_LEVELS_by_interval).raised
           THEN RaiseValueError(p, a)
           ELSE IF check_date_format_wrapper(start_date).raised THEN RaiseValueError(p, a)
           ELSE IF check_date_format_wrapper(end_date).raised THEN RaiseValueError(p, a)
           ELSE IF TimesRaise(start_time, end_time) THEN RaiseValueError(p, a)
           ELSE api_request(p, a,
                    UserPath \o <<"/activities/heart/date/">> \o start_date
                    \o <<"/">> \o end_date \o <<"/", detail_level>>
                    \o TimeSuffix(start_time, end_time))

(* ----------------------------- util/auth.py --------------------------- *)

\* the alphabet of base64.urlsafe_b64encode
B64_URLSAFE ==
    <<
     "A", "B", "C", "D", "E", "F", "G", "H", "I", "J", "K", "L", "M", "N", "O", "P",
     "Q", "R", "S", "T", "U", "V", "W", "X", "Y", "Z", "a", "b", "c", "d", "e", "f",
     "g", "h", "i", "j", "k", "l", "m", "n", "o", "p", "q", "r", "s", "t", "u", "v",
     "w", "x", "y", "z", "0", "1", "2", "3", "4", "5", "6", "7", "8", "9", "-", "_">>

\* secrets.token_bytes(n): n bytes; the model takes them from the family
\* seed, seed + step, seed + 2 step, ... (mod 256)
token_bytes(n, seed, step) == [i \in 1..n |-> (seed + (i - 1) * step) % 256]

ByteAt(b, i) == IF i <= Len(b) THEN b[i] ELSE 0

\* the four 6-bit values of the g-th group of three bytes (g from 0)
Sextets(b, g) ==
    LET b1 == ByteAt(b, 3 * g + 1)
        b2 == ByteAt(b, 3 * g + 2)
        b3 == ByteAt(b, 3 * g + 3)
    IN  <<b1 \div 4, (b1 % 4) * 16 + b2 \div 16, (b2 % 16) * 4 + b3 \div 64, b3 % 64>>

\* base64.urlsafe_b64encode: four characters for every three bytes, the last
\* group padded with "="
urlsafe_b64encode(b) ==
    [j \in 1..(4 * ((Len(b) + 2) \div 3)) |->
        LET g == (j - 1) \div 4
            k == (j - 1) % 4
        IN  IF (k = 2 /\ 3 * g + 2 > Len(b)) \/ (k = 3 /\ 3 * g + 3 > Len(b))
            THEN "="
            ELSE B64_URLSAFE[Sextets(b, g)[k + 1] + 1]]

\* bytes.rstrip(b'=')
rstrip_pad(s) ==
    LET keep == {i \in 1..Len(s) : s[i] /= "="}
    IN  SubSeq(s, 1, IF keep = {} THEN 0 ELSE CHOOSE i \in keep : \A j \in keep : j <= i)

\* secrets.token_urlsafe
token_urlsafe(n, seed, step) == rstrip_pad(urlsafe_b64encode(token_bytes(n, seed, step)))

make_code_verifier(bytes_of_randomness, seed, step) ==
    token_urlsafe(bytes_of_randomness, seed, step)

\* the literal parts of the f-string of make_auth_api_url
AUTH_ENDPOINT ==
    <<
     "h", "t", "t", "p", "s", ":", "/", "/", "w", "w", "w", ".", "f", "i", "t", "b",
     "i", "t", ".", "c", "o", "m", "/", "o", "a", "u", "t", "h", "2", "/", "a", "u",
     "t", "h", "o", "r", "i", "z", "e", "?">>

Q_client_id == <<"c", "l", "i", "e", "n", "t", "_", "i", "d", "=">>

Q_response_type == <<"&", "r", "e", "s", "p", "o", "n", "s", "e", "_", "t", "y", "p", "e", "=">>

Q_code_challenge == <<"&", "c", "o", "d", "e", "_", "c", "h", "a", "l", "l", "e", "n", "g", "e", "=">>

Q_code_challenge_method ==
    <<
     "&", "c", "o", "d", "e", "_", "c", "h", "a", "l", "l", "e", "n", "g", "e", "_",
     "m", "e", "t", "h", "o", "d", "=">>

Q_scope == <<"&", "s", "c", "o", "p", "e", "=">>

\* the defaults of code_challenge_method and response_type
S256 == <<"S", "2", "5", "6">>

ResponseTypeCode == <<"c", "o", "d", "e">>

\* a url with code_challenge_method ahead of code_challenge
make_auth_api_url_method_first(client_id, scope, code_challenge, code_challenge_method, response_type) ==
    AUTH_ENDPOINT
    \o Q_client_id \o client_id
    \o Q_response_type \o response_type
    \o Q_code_challenge_method \o code_challenge_method
    \o Q_code_challenge \o code_challenge
    \o Q_scope \o scope

make_auth_api_url(client_id, scope, code_challenge, code_challenge_method, response_type) ==
    AUTH_ENDPOINT
    \o Q_client_id \o client_id
    \o Q_response_type \o response_type
    \o Q_code_challenge \o code_challenge
    \o Q_code_challenge_method \o code_challenge_method
    \o Q_scope \o scope

(* --------------------------- specifications --------------------------- *)

Init ==
    /\ vin = <<>>
    /\ vout = Pending
    /\ InitProto

InitDate ==
    /\ vin \in DateInputs
    /\ vout = Pending
    /\ InitProto

CheckDate ==
    /\ vout = Pending
    /\ vout' = check_date_format_wrapper(vin)
    /\ UNCHANGED <<vin, protoVars>>

SpecDate == InitDate /\ [][CheckDate]_vars

\* arguments of make_auth_api_url: those of the test and of the documentation
ClientId_ABC123 == <<"A", "B", "C", "1", "2", "3">>

ClientId_22B == <<"2", "2", "B">>

Scope_heartrate_sleep == <<"h", "e", "a", "r", "t", "r", "a", "t", "e", " ", "s", "l", "e", "e", "p">>

Scope_weight == <<"w", "e", "i", "g", "h", "t">>

Scope_all ==
    <<
     "w", "e", "i", "g", "h", "t", " ", "l", "o", "c", "a", "t", "i", "o", "n", " ",
     "s", "e", "t", "t", "i", "n", "g", "s", " ", "p", "r", "o", "f", "i", "l", "e",
     " ", "n", "u", "t", "r", "i", "t", "i", "o", "n", " ", "a", "c", "t", "i", "v",
     "i", "t", "y", " ", "s", "l", "e", "e", "p", " ", "h", "e", "a", "r", "t", "r",
     "a", "t", "e", " ", "s", "o", "c", "i", "a", "l">>

Challenge_XYZ == <<"X", "Y", "Z">>

Challenge_mock ==
    <<
     "-", "4", "c", "f", "-", "M", "z", "o", "_", "q", "g", "9", "-", "u", "q", "0",
     "F", "4", "Q", "w", "W", "h", "R", "h", "4", "A", "j", "c", "A", "q", "N", "x",
     "7", "S", "b", "Y", "V", "s", "d", "m", "y", "Q", "M">>

MethodPlain == <<"p", "l", "a", "i", "n">>

ResponseTypeToken == <<"t", "o", "k", "e", "n">>

InitAuthUrl ==
    /\ vin \in [client_id : {ClientId_ABC123, ClientId_22B},
                scope : {Scope_heartrate_sleep, Scope_weight, Scope_all, <<>>},
                code_challenge : {Challenge_XYZ, Challenge_mock},
                code_challenge_method : {S256, MethodPlain},
                response_type : {ResponseTypeCode, ResponseTypeToken}]
    /\ vout = Pending
    /\ InitProto

MakeAuthApiUrl ==
    /\ vout = Pending
    /\ vout' = Returns(make_auth_api_url(vin.client_id, vin.scope, vin.code_challenge,
                                         vin.code_challenge_method, vin.response_type))
    /\ UNCHANGED <<vin, protoVars>>

SpecAuthUrl == InitAuthUrl /\ [][MakeAuthApiUrl]_vars

\* make_code_verifier on its own, for every bytes_of_randomness up to the bound
InitVerifier ==
    /\ vin \in [n : 0..MaxEntropyBytes, seed : {0, 171, 255}, step : {0, 7}]
    /\ vout = Pending
    /\ InitProto

MakeCodeVerifier ==
    /\ vout = Pending
    /\ vout' = Returns(make_code_verifier(vin.n, vin.seed, vin.step))
    /\ UNCHANGED <<vin, protoVars>>

SpecVerifier == InitVerifier /\ [][MakeCodeVerifier]_vars

\* one caller, one accessor call after the other on the same FitbitAPI object
Caller == 1

Next ==
    \/ \E date \in {Today, Date_2022_08_15} : by_date(Caller, date, "1d")
    \/ by_date_range(Caller, Today, Today)
    \/ by_date_intraday(Caller, Today, "1min", None, None)
    \/ by_interval_intraday(Caller, Today, Today, "1min", Time_07_00, Time_13_00)
    \/ FirstGet(Caller, Responses)
    \/ RefreshLoad(Caller)
    \/ RefreshRequest(Caller)
    \/ RefreshSave(Caller)
    \/ Reload(Caller)
    \/ RetryGet(Caller, Responses)

Spec == Init /\ [][Next]_vars

\* one accessor call, its parameters drawn from well-formed and malformed values
ParamDates == {Today, Date_2022_08_15, Date_2022_8_15, Date_15_08_2022, <<>>,
               Date_2022_08_15 \o <<"\n">>}
ParamPeriods == {"1d", "7d", "2d", ""}
ParamDetailLevels == {"1sec", "1min", "5min", "15min", "1hour"}
ParamTimes == {None, Time_07_00, Time_13_00, Time_7_00, Time_25_99, <<>>}

NextAccessors ==
    \/ /\ calls = 0
       /\ \E date \in ParamDates, period \in ParamPeriods : by_date(Caller, date, period)
    \/ /\ calls = 0
       /\ \E start_date \in ParamDates, end_date \in ParamDates :
            by_date_range(Caller, start_date, end_date)
    \/ /\ calls = 0
       /\ \E date \in ParamDates, detail_level \in ParamDetailLevels,
             start_time \in ParamTimes, end_time \in ParamTimes :
            by_date_intraday(Caller, date, detail_level, start_time, end_time)
    \/ /\ calls = 0
       /\ \E start_date \in ParamDates, end_date \in ParamDates,
             detail_level \in ParamDetailLevels,
             start_time \in ParamTimes, end_time \in ParamTimes :
            by_interval_intraday(Caller, start_date, end_date, detail_level,
                                 start_time, end_time)
    \/ FirstGet(Caller, FewResponses)
    \/ RefreshLoad(Caller)
    \/ RefreshRequest(Caller)
    \/ RefreshSave(Caller)
    \/ Reload(Caller)
    \/ RetryGet(Caller, FewResponses)

SpecAccessors == Init /\ [][NextAccessors]_vars

\* two callers whose calls interleave at every network and file operation
NextConcurrent ==
    \E p \in Procs :
        \/ by_date(p, Today, "1d")
        \/ FirstGet(p, FewResponses)
        \/ RefreshLoad(p)
        \/ RefreshRequest(p)
        \/ RefreshSave(p)
        \/ Reload(p)
        \/ RetryGet(p, FewResponses)

SpecConcurrent == Init /\ [][NextConcurrent]_vars


(* ------------------------------ properties ---------------------------- *)

Last(p) == wire[p][Len(wire[p])].resp

IsExpired401(r) ==
    /\ r.status_code = 401
    /\ r.content.json
    /\ r.content.doc.errors /= <<>>
    /\ r.content.doc.errors[1].errorType = "expired_token"

IsOther401(r) ==
    /\ r.status_code = 401
    /\ r.content.json
    /\ r.content.doc.errors /= <<>>
    /\ r.content.doc.errors[1].errorType /= "expired_token"

\* the first GET of p's call was answered 401 expired_token
ObservedExpiry(p) == Len(wire[p]) >= 1 /\ IsExpired401(wire[p][1].resp)

\* the token endpoint answered p's refresh with a new pair
GotNewPair(p) == data[p] /= NoTokens

\* C1: a call whose first GET is answered 401 expired_token and whose refresh
\* request is answered with a new pair has, when it ends, asked the token
\* endpoint exactly once, has the new access and refresh token in the store,
\* has sent exactly one more GET to the same url with the store's new access
\* token, and returns the parsed body of that second response when it is 2xx.
C1_RefreshPersistRetry ==
    \A p \in Procs :
        (pc[p] = "done" /\ ObservedExpiry(p) /\ GotNewPair(p)) =>
            /\ refreshes[p] = 1
            /\ store[SECRETS_ACCESS_TOKEN_KEY] = data[p][TOKEN_API_ACCESS_TOKEN_KEY]
            /\ store[SECRETS_REFRESH_TOKEN_KEY] = data[p][TOKEN_API_REFRESH_TOKEN_KEY]
            /\ Len(wire[p]) = 2
            /\ wire[p][2].url = wire[p][1].url
            /\ wire[p][2].auth = <<"Bearer ", store[SECRETS_ACCESS_TOKEN_KEY]>>
            /\ wire[p][2].auth /= wire[p][1].auth
            /\ (Is2xx(Last(p).status_code) /\ Last(p).content.json) =>
                    (result[p].kind = "return" /\ result[p].value = Last(p).content.doc)

\* C2: within one call at most two GETs and at most one refresh request are
\* issued; a second GET and a refresh happen only after a first answer of 401
\* expired_token, and the call ends with the second GET whatever its answer.
C2_AtMostTwoGetsOneRefresh ==
    \A p \in Procs :
        /\ Len(wire[p]) <= 2
        /\ refreshes[p] <= 1
        /\ (refreshes[p] = 1) => ObservedExpiry(p)
        /\ (Len(wire[p]) = 2) => (ObservedExpiry(p) /\ refreshes[p] = 1 /\ pc[p] = "done")

\* a call that ended after a second 401 expired_token
C2_Witness ==
    \E p \in Procs :
        /\ pc[p] = "done"
        /\ Len(wire[p]) = 2
        /\ IsExpired401(wire[p][2].resp)
        /\ refreshes[p] = 1

C3_Ended(p) == pc[p] = "done" /\ Len(wire[p]) >= 1 /\ IsOther401(wire[p][1].resp)

\* C3: a first answer of 401 with an errorType other than expired_token ends
\* the call at once with the request error for that response: no refresh
\* request, no second GET, and the step leaves the store as it was.
C3_OtherErrorTypeNoRefresh ==
    /\ [](\A p \in Procs :
            C3_Ended(p) =>
                /\ Len(wire[p]) = 1
                /\ refreshes[p] = 0
                /\ result[p].kind = "HTTPError"
                /\ result[p].status_code = 401
                /\ result[p].content = wire[p][1].resp.content)
    /\ [][\A p \in Procs :
            (Len(wire[p]) = 0 /\ Len(wire'[p]) = 1 /\ IsOther401(wire'[p][1].resp)) =>
                /\ pc'[p] = "done"
                /\ store' = store
                /\ nextTok' = nextTok]_vars

C3_Witness == \E p \in Procs : C3_Ended(p) /\ result[p].kind = "HTTPError"

IsErrorStatus(st) == st >= 400 /\ st <= 599

C6_RefreshEnded(p) ==
    \/ pc[p] \in {"reload", "retry"}
    \/ pc[p] = "done" /\ GotNewPair(p)

\* C6: once refresh_token has run to its end, load_tokens gives exactly the
\* access token, refresh token and user id of that refresh's token response.
C6_RefreshReplacesWholePair ==
    \A p \in Procs : C6_RefreshEnded(p) => load_tokens(store) = data[p]

DateFails(d) == check_date_format_wrapper(d).raised
TimeFails(t) == t /= None /\ check_time_format_wrapper(t).raised
OneTimeOnly(a) == (a.start_time = None) /= (a.end_time = None)

\* some parameter of the call fails the validation its accessor gives it
Malformed(a) ==
    CASE a.fn = "by_date" ->
            a.period \notin {"1d", "7d", "30d", "1w", "1m"} \/ DateFails(a.date)
      [] a.fn = "by_date_range" ->
            DateFails(a.date) \/ DateFails(a.end_date)
      [] a.fn = "by_date_intraday" ->
            \/ DateFails(a.date)
            \/ a.detail_level \notin {"1sec", "1min", "5min", "15min"}
            \/ OneTimeOnly(a) \/ TimeFails(a.start_time) \/ TimeFails(a.end_time)
      [] a.fn = "by_interval_intraday" ->
            \/ DateFails(a.date) \/ DateFails(a.end_date)
            \/ a.detail_level \notin {"1sec", "1min"}
            \/ OneTimeOnly(a) \/ TimeFails(a.start_time) \/ TimeFails(a.end_time)
      [] OTHER -> FALSE

Intraday(a) == a.fn \in {"by_date_intraday", "by_interval_intraday"}

\* strict HH:mm
WellFormedTime(t) ==
    /\ t /= None
    /\ Len(t) = 5
    /\ \A i \in 1..5 : IF i = 3 THEN t[i] = ":" ELSE t[i] \in Digits

\* the date and detail level parameters of an intraday call pass
OthersPass(a) ==
    /\ ~DateFails(a.date)
    /\ a.fn = "by_date_intraday" => a.detail_level \in {"1sec", "1min", "5min", "15min"}
    /\ a.fn = "by_interval_intraday" =>
            (~DateFails(a.end_date) /\ a.detail_level \in {"1sec", "1min"})

EndsWith(s, tail) ==
    /\ Len(s) >= Len(tail)
    /\ SubSeq(s, Len(s) - Len(tail) + 1, Len(s)) = tail

\* C9: an intraday call with exactly one of start_time and end_time raises
\* ValueError; with neither (the other parameters passing) it goes to the wire
\* with a url that has no "/time/" part; with two well-formed times it goes to
\* the wire with a url ending "/time/<start_time>/<end_time>.json".
C9_PairedTimes ==
    \A p \in Procs :
        Intraday(args[p]) =>
            /\ OneTimeOnly(args[p]) => result[p].kind = "ValueError"
            /\ (args[p].start_time = None /\ args[p].end_time = None /\ OthersPass(args[p])) =>
                    /\ result[p].kind /= "ValueError"
                    /\ url[p] /= <<>>
                    /\ \A i \in 1..Len(url[p]) : url[p][i] /= "/time/"
                    /\ EndsWith(url[p],
                                IF args[p].fn = "by_date_intraday"
                                THEN <<"/1d/", args[p].detail_level, ".json">>
                                ELSE <<"/", args[p].detail_level, ".json">>)
            /\ (WellFormedTime(args[p].start_time) /\ WellFormedTime(args[p].end_time)
                    /\ OthersPass(args[p])) =>
                    /\ result[p].kind /= "ValueError"
                    /\ EndsWith(url[p], <<"/time/">> \o args[p].start_time \o <<"/">>
                                        \o args[p].end_time \o <<".json">>)

\* a by_date_intraday call refused because only start_time was given
C9_Witness ==
    \E p \in Procs :
        /\ args[p].fn = "by_date_intraday"
        /\ OthersPass(args[p])
        /\ args[p].start_time = Time_07_00
        /\ args[p].end_time = None
        /\ result[p].kind = "ValueError"

\* four digits, two digits, two digits, separated by hyphens
StrictDate(s) ==
    /\ Len(s) = 10
    /\ \A i \in 1..10 : IF i \in {5, 8} THEN s[i] = "-" ELSE s[i] \in Digits

\* C10: check_date_format_wrapper returns its input when the input is 'today'
\* or a strict 4-2-2 digit string, and raises ValueError for every other string.
C10_DateValidatorExact ==
    (vout /= Pending) =>
        IF vin = Today \/ StrictDate(vin)
        THEN vout = Returns(vin)
        ELSE vout.raised

\* C8: a call that saw 401 expired_token asks the token endpoint itself,
\* whatever any other call has done to the store in the meantime, so two calls
\* that saw the same access token expire make two refresh requests.
C8_EveryObserverRefreshes ==
    \A p \in Procs :
        (ObservedExpiry(p) /\ pc[p] \notin {"refresh_load", "refresh_request"}) =>
            refreshes[p] = 1

\* two calls in flight at once, both past their own refresh request for the
\* same expired access token
C8_TwoRefreshesOneExpiry ==
    \E p, q \in Procs :
        /\ p /= q
        /\ ObservedExpiry(p) /\ ObservedExpiry(q)
        /\ wire[p][1].auth = wire[q][1].auth
        /\ refreshes[p] = 1 /\ refreshes[q] = 1
        /\ pc[p] /= "done" /\ pc[q] /= "done"

\* the token endpoint refused p's refresh request
C13_RefreshFailed(p) ==
    /\ refreshes[p] = 1
    /\ ~GotNewPair(p)
    /\ pc[p] /= "refresh_request"

\* C13: when the token endpoint refuses the refresh request of a call, the
\* call ends there with the token endpoint's error: the step leaves the store
\* and the wire as they were, no second GET follows, and the store still holds
\* the access and refresh token that refresh_token loaded.
C13_FailedRefreshIsTerminal ==
    /\ [](\A p \in Procs :
            C13_RefreshFailed(p) =>
                /\ pc[p] = "done"
                /\ result[p].kind = "TokenExchangeError"
                /\ Len(wire[p]) = 1
                /\ store[SECRETS_ACCESS_TOKEN_KEY] = secrets[p][SECRETS_ACCESS_TOKEN_KEY]
                /\ store[SECRETS_REFRESH_TOKEN_KEY] = secrets[p][SECRETS_REFRESH_TOKEN_KEY])
    /\ [][\A p \in Procs :
            (refreshes'[p] = refreshes[p] + 1 /\ nextTok' = nextTok) =>
                /\ pc'[p] = "done"
                /\ result'[p].kind = "TokenExchangeError"
                /\ store' = store
                /\ wire' = wire]_vars

\* a call ended by a refused refresh after a first answer of 401 expired_token
C13_Witness ==
    \E p \in Procs :
        /\ C13_RefreshFailed(p)
        /\ ObservedExpiry(p)
        /\ result[p].kind = "TokenExchangeError"

\* the unreserved characters of the URL-safe base64 alphabet
Unreserved ==
    {"A", "B", "C", "D", "E", "F", "G", "H", "I", "J", "K", "L", "M",
     "N", "O", "P", "Q", "R", "S", "T", "U", "V", "W", "X", "Y", "Z",
     "a", "b", "c", "d", "e", "f", "g", "h", "i", "j", "k", "l", "m",
     "n", "o", "p", "q", "r", "s", "t", "u", "v", "w", "x", "y", "z",
     "0", "1", "2", "3", "4", "5", "6", "7", "8", "9", "-", "_"}

\* C11: for every bytes_of_randomness of 32 or more, make_code_verifier gives
\* a string of unreserved URL-safe base64 characters of length 43 to 128.
C11_VerifierLength ==
    (vout /= Pending /\ vin.n >= 32) =>
        /\ Len(vout.value) >= 43
        /\ Len(vout.value) <= 128
        /\ \A i \in 1..Len(vout.value) : vout.value[i] \in Unreserved

\* the names of the query parameters
Key_client_id == <<"c", "l", "i", "e", "n", "t", "_", "i", "d">>

Key_response_type == <<"r", "e", "s", "p", "o", "n", "s", "e", "_", "t", "y", "p", "e">>

Key_code_challenge == <<"c", "o", "d", "e", "_", "c", "h", "a", "l", "l", "e", "n", "g", "e">>

Key_code_challenge_method ==
    <<
     "c", "o", "d", "e", "_", "c", "h", "a", "l", "l", "e", "n", "g", "e", "_", "m",
     "e", "t", "h", "o", "d">>

Key_scope == <<"s", "c", "o", "p", "e">>

\* the authorization endpoint
AuthorizeUrl ==
    <<
     "h", "t", "t", "p", "s", ":", "/", "/", "w", "w", "w", ".", "f", "i", "t", "b",
     "i", "t", ".", "c", "o", "m", "/", "o", "a", "u", "t", "h", "2", "/", "a", "u",
     "t", "h", "o", "r", "i", "z", "e">>

\* the first place of character c in s, 0 when there is none
IndexOf(s, c) ==
    IF \E i \in 1..Len(s) : s[i] = c
    THEN CHOOSE i \in 1..Len(s) : s[i] = c /\ \A j \in 1..(i - 1) : s[j] /= c
    ELSE 0

RECURSIVE Split(_, _)
\* s cut at every c
Split(s, c) ==
    IF IndexOf(s, c) = 0 THEN <<s>>
    ELSE <<SubSeq(s, 1, IndexOf(s, c) - 1)>>
         \o Split(SubSeq(s, IndexOf(s, c) + 1, Len(s)), c)

\* the query parameters of url u, in order, each a <<name, value>>
QueryOf(u) ==
    LET q == SubSeq(u, IndexOf(u, "?") + 1, Len(u))
        fields == Split(q, "&")
    IN  [k \in 1..Len(fields) |->
            <<SubSeq(fields[k], 1, IndexOf(fields[k], "=") - 1),
              SubSeq(fields[k], IndexOf(fields[k], "=") + 1, Len(fields[k]))>>]

\* how often sub occurs in s
Count(s, sub) ==
    Cardinality({i \in 1..(Len(s) - Len(sub) + 1) : SubSeq(s, i, i + Len(sub) - 1) = sub})

\* C12: make_auth_api_url gives the authorization endpoint, "?", and the query
\* parameters client_id, response_type, code_challenge, code_challenge_method,
\* scope in this order, each with the argument as its value and scope as it was
\* passed; with the default method and response type the url holds exactly one
\* client_id=<id>, code_challenge=<challenge>, code_challenge_method=S256 and
\* response_type=code.
C12_AuthUrl ==
    (vout /= Pending) =>
        LET u == vout.value
        IN  /\ SubSeq(u, 1, IndexOf(u, "?") - 1) = AuthorizeUrl
            /\ QueryOf(u) = << <<Key_client_id, vin.client_id>>,
                               <<Key_response_type, vin.response_type>>,
                               <<Key_code_challenge, vin.code_challenge>>,
                               <<Key_code_challenge_method, vin.code_challenge_method>>,
                               <<Key_scope, vin.scope>> >>
            /\ (vin.code_challenge_method = S256 /\ vin.response_type = ResponseTypeCode) =>
                    /\ Count(u, Key_client_id \o <<"=">> \o vin.client_id) = 1
                    /\ Count(u, Key_code_challenge \o <<"=">> \o vin.code_challenge) = 1
                    /\ Count(u, Key_code_challenge_method \o <<"=">> \o S256) = 1
                    /\ Count(u, Key_response_type \o <<"=">> \o ResponseTypeCode) = 1

\* the url for client_id ABC123, scope "heartrate sleep" and challenge XYZ with
\* the defaults, its scope holding the space as passed
C12_Witness ==
    /\ vout /= Pending
    /\ vin.client_id = ClientId_ABC123
    /\ vin.scope = Scope_heartrate_sleep
    /\ vin.code_challenge = Challenge_XYZ
    /\ vin.code_challenge_method = S256
    /\ vin.response_type = ResponseTypeCode
    /\ Count(vout.value, <<"=">> \o Scope_heartrate_sleep) = 1

=============================================================================
